---- MODULE Spec2Model ----
(***************************************************************************)
(* A model of PREDSTORM's time-series container (predstorm/data.py,        *)
(* classes SatData and PositionData, function merge_Data) and of the       *)
(* analogue search of predstorm_l1.py.                                     *)
(*                                                                         *)
(* Numbers.  The program works on float64 arrays.  The model uses small    *)
(* integers for times and samples, and the value NaN for a missing value.  *)
(* Angles are counted in quarter turns, so that every rotation matrix of   *)
(* the frame conversions has integer entries.                              *)
(***************************************************************************)
EXTENDS Integers, Sequences, FiniteSets, TLC

\* ------------------------------------------------------------------ bounds
\* Longest time axis handed to the constructor.
MaxLen == 2
\* Largest time value (times are 0..MaxT).
MaxT == 2
\* Largest magnitude a stored sample may reach (caps shift_wind_to_L1).
MaxVal == 12
\* Longest ReferenceFrame label, in parts (caps the appending of '-GSE').
MaxLabel == 3
\* Most method calls made on one container in SpecAll.
MaxCalls == 2

\* ------------------------------------------------------------- the schema
\* SatData.default_keys
default_keys ==
    << "time", "speed", "speedx", "density", "temp", "pdyn",
       "bx", "by", "bz", "btot", "br", "bt", "bn",
       "dst", "kp", "aurora", "ec", "ae" >>

RECURSIVE SeqToSet(_)
SeqToSet(s) == IF s = << >> THEN {} ELSE {Head(s)} \cup SeqToSet(Tail(s))

DefaultKeySet == SeqToSet(default_keys)

\* list.index(x): the first position of x (0-based in Python, 1-based here)
KeyIndex(k) == CHOOSE i \in 1..Len(default_keys) : default_keys[i] = k

\* `x in list`
InList(x, l) == \E i \in 1..Len(l) : l[i] = x

\* list.count(x)
Count(x, l) == Cardinality({i \in 1..Len(l) : l[i] = x})

\* A name that is not in the schema, standing for every such name.
UnknownKey == "foo"

\* ---------------------------------------------------------------- arrays
\* np.zeros(n)
Zeros(n) == [i \in 1..n |-> 0]

\* row[inds] with inds an index array (numpy fancy indexing)
Take(row, inds) == [j \in 1..Len(inds) |-> row[inds[j]]]

\* The members of a finite set of indices, in increasing order
\* (np.where(cond)[0] for the set of indices where cond holds)
RECURSIVE SortedSeq(_)
SortedSeq(S) ==
    IF S = {} THEN << >>
    ELSE LET m == CHOOSE x \in S : \A y \in S : x <= y
         IN  << m >> \o SortedSeq(S \ {m})

\* All sequences over S of length 0..n
SeqsUpTo(S, n) == UNION {[1..m -> S] : m \in 0..n}

Abs(x) == IF x < 0 THEN -x ELSE x

\* ------------------------------------------------------------------ state
VARIABLES
    exists,   \* TRUE once a SatData object has been constructed
    data,     \* SatData.data: one row per schema key, row 1 is the time axis
    vars,     \* SatData.vars: the list of active variables
    state,    \* SatData.state: the per-sample classification labels
    source,   \* SatData.source
    h,        \* SatData.h: the header (the fields the operations read)
    pos,      \* SatData.pos: the attached PositionData, or NoPos
    last,     \* the last call: its name, arguments and outcome
    ncalls,   \* the number of method calls counted so far (see SpecAll)
    omni,        \* predstorm_l1: the training rows omni[k], hourly
    nowwind,     \* btotn, bzgsmn, bygsmn, bxn, speedn, denn: the now-wind
    trainstart,  \* the configured start of the training period, in hours
    trainend,    \* the configured end of the training period, in hours
    startindex,  \* the index of the first training window
    endindex,    \* the index after the last training window
    loop_i,      \* the loop variable i of the sliding window analysis
    dist_count,  \* dist_count_b, _bz, _by, _bx, _v, _n, one array per variable
    maxval,      \* maxval_b, ...: the smallest distance, per variable
    maxpos,      \* maxpos_b, ...: the index selected, per variable
    top50,       \* top50_b, ...: the ranked indices, per variable
    pred,        \* btotp, bzp, ...: the predicted continuation, per variable
    timesdst,    \* timesdst: the time axis of the assembled series, in hours
    vardst,      \* btotdst, bxdst, ...: the assembled series, per variable
    stage,       \* where the search stands: idle, slide, done, assembled, or
                 \* an error
    satdata1,    \* merge_Data: the first container; the self of interp_to_time
                 \* and make_hourly_data
    satdata2,    \* merge_Data: the second container
    ret,         \* the last of these calls: its arguments, the error it
                 \* raised or OK, and the container it returned
    loop         \* a per-sample loop under way whose iterations run in any
                 \* order: its name, the iterations still to run, the arrays
                 \* it reads and the output arrays it fills

sat_vars == << exists, data, vars, state, source, h, pos, last >>

ae_vars == << omni, nowwind, trainstart, trainend, startindex, endindex, loop_i,
              dist_count, maxval, maxpos, top50, pred, timesdst, vardst, stage >>

fn_vars == << satdata1, satdata2, ret, loop >>

vars_all == << sat_vars, ncalls, ae_vars, fn_vars >>

\* self.pos = None
NoPos == [attached |-> FALSE, coors |-> "", positions |-> << << >>, << >>, << >> >>]

\* len(self): len(self.data[0])
SatLen == Len(data["time"])

\* PositionData.__len__: len(self.positions[0])
PosLen == Len(pos.positions[1])

\* The outcome of a call that raised nothing
OK == "ok"

\* The record of a call: key is the name it was given, val the array it was
\* given or returned, arg its optional arguments (each << >> for None, or
\* << x >>), err the error it raised or OK.
NoCall == [op |-> "none", key |-> "", val |-> << >>, arg |-> << >>, err |-> OK]

Call(op, key, val, err) == [op |-> op, key |-> key, val |-> val, arg |-> << >>, err |-> err]

CallArgs(op, arg, err) == [op |-> op, key |-> "", val |-> << >>, arg |-> arg, err |-> err]

\* SatData.empty_header (the fields the operations read).  ReferenceFrame is
\* the list of the label's parts between dashes: 'RTN-GSE' is
\* << "RTN", "GSE" >>, '' is << "" >>.
empty_header == [ReferenceFrame |-> << "" >>, HeliosatObject |-> FALSE]

\* --------------------------------------------------- constructor inputs
TimeArrays == SeqsUpTo(0..MaxT, MaxLen)

\* The constructor calls tried: the readers' own (get_past_dst,
\* get_dscovr_data, get_stereo_beacon_data, with the header fields they set),
\* a bare time axis, a mapping without time, and two with a name outside the
\* schema (with and without time).
Inputs ==
    { [keys |-> {"time"}, source |-> "", h |-> empty_header],
      [keys |-> {"time", "dst"}, source |-> "", h |-> empty_header],
      [keys |-> {"time", "speed", "density", "btot", "bx", "by", "bz"},
       source |-> "DSCOVR",
       h |-> [ReferenceFrame |-> << "GSE" >>, HeliosatObject |-> TRUE]],
      [keys |-> {"time", "speed", "density", "btot", "br", "bt", "bn"},
       source |-> "STEREO-A",
       h |-> [ReferenceFrame |-> << "RTN" >>, HeliosatObject |-> TRUE]],
      [keys |-> {"speed", "density"}, source |-> "", h |-> empty_header],
      [keys |-> {"time", "speed", UnknownKey}, source |-> "", h |-> empty_header],
      [keys |-> {"speed", UnknownKey}, source |-> "", h |-> empty_header] }

\* The sample of input variable k at position i: 1..3, different for
\* neighbouring samples and for neighbouring keys.
Sample(k, i) == 1 + (((IF k \in DefaultKeySet THEN KeyIndex(k) ELSE 0) + i) % 3)

\* An input mapping: the time axis t under 'time' (when the key set has it)
\* and a row of n samples under every other key; with ragged, the rows other
\* than time are one sample longer than n.
InputDict(K, t, n, ragged) ==
    [k \in K |-> IF k = "time" THEN t
                 ELSE [i \in 1..(IF ragged THEN n + 1 ELSE n) |-> Sample(k, i)]]

\* -------------------------------------------------------------- SatData
\* Two constructors the program does not have, against which C2 and C3 are
\* tried: one that does not look at the names, one that looks for 'time'
\* before it looks at the names.
InitError_NoSchemaCheck(input_dict) ==
    LET keys == DOMAIN input_dict
    IN  IF "time" \notin keys THEN "TimeRequired"
        ELSE IF \E k \in keys : Len(input_dict[k]) # Len(input_dict["time"])
             THEN "ValueError"
        ELSE OK

InitError_TimeFirst(input_dict) ==
    LET keys == DOMAIN input_dict
    IN  IF "time" \notin keys THEN "TimeRequired"
        ELSE IF \E k \in keys : k \notin DefaultKeySet THEN "NotImplementedError"
        ELSE IF \E k \in keys : Len(input_dict[k]) # Len(input_dict["time"])
             THEN "ValueError"
        ELSE OK

\* The error SatData.__init__ raises for input_dict, or OK.  np.asarray of
\* rows of unequal lengths raises ValueError (numpy >= 1.24: "inhomogeneous
\* shape").
InitError(input_dict) ==
    LET keys == DOMAIN input_dict
    IN  IF \E k \in keys : k \notin DefaultKeySet THEN "NotImplementedError"
        ELSE IF "time" \notin keys THEN "TimeRequired"
        ELSE IF \E k \in keys : Len(input_dict[k]) # Len(input_dict["time"])
             THEN "ValueError"
        ELSE OK

\* data = [input_dict[x] if x in dt else np.zeros(len(input_dict['time'])) ...]
InitData(input_dict) ==
    [k \in DefaultKeySet |->
        IF k \in DOMAIN input_dict THEN input_dict[k]
        ELSE Zeros(Len(input_dict["time"]))]

\* dt = [x for x in default_keys if x in input_dict.keys()]; dt.remove('time')
RECURSIVE Filter(_, _)
Filter(l, S) ==
    IF l = << >> THEN << >>
    ELSE IF Head(l) \in S THEN << Head(l) >> \o Filter(Tail(l), S)
    ELSE Filter(Tail(l), S)

\* list.remove(x): removes the first occurrence
RECURSIVE Remove(_, _)
Remove(l, x) ==
    IF l = << >> THEN << >>
    ELSE IF Head(l) = x THEN Tail(l)
    ELSE << Head(l) >> \o Remove(Tail(l), x)

InitVars(input_dict) == Remove(Filter(default_keys, DOMAIN input_dict), "time")

EmptyData == [k \in DefaultKeySet |-> << >>]

\* SatData.empty_header, the fields merge_Data and interp_to_time write:
\* SamplingRate is << >> for None or << rate >>, Instruments a list of names
empty_header_fields ==
    [SamplingRate |-> << >>, ReferenceFrame |-> "", Instruments |-> << >>]

\* No container: before a call, and after a call that raised
NoSat ==
    [data |-> EmptyData, vars |-> << >>, h |-> empty_header_fields,
     source |-> << >>, pos |-> NoPos]

\* No loop under way
NoLoop == [name |-> "none", todo |-> {}, arg |-> << >>, in |-> << >>, out |-> << >>]

NoRet == [op |-> "none", tarray |-> << >>, keys |-> << >>, err |-> OK, out |-> NoSat]

Init ==
    /\ exists = FALSE
    /\ data = EmptyData
    /\ vars = << >>
    /\ state = << >>
    /\ source = ""
    /\ h = empty_header
    /\ pos = NoPos
    /\ last = NoCall
    /\ ncalls = 0
    /\ omni = << >>
    /\ nowwind = << >>
    /\ trainstart = 0
    /\ trainend = 0
    /\ startindex = 0
    /\ endindex = 0
    /\ loop_i = 0
    /\ dist_count = << >>
    /\ maxval = << >>
    /\ maxpos = << >>
    /\ top50 = << >>
    /\ pred = << >>
    /\ timesdst = << >>
    /\ vardst = << >>
    /\ stage = "idle"
    /\ satdata1 = NoSat
    /\ satdata2 = NoSat
    /\ ret = NoRet
    /\ loop = NoLoop

\* SatData(input_dict, source, header)
SatData_init ==
    /\ ~exists
    /\ \E p \in Inputs, t \in TimeArrays, ragged \in BOOLEAN :
         LET K == p.keys
             input_dict == InputDict(K, t, Len(t), ragged)
             err == InitError(input_dict)
         IN  /\ last' = Call("init", IF UnknownKey \in K THEN UnknownKey ELSE "",
                             IF "time" \in K THEN << 1 >> ELSE << 0 >>, err)
             /\ IF err = OK
                THEN /\ exists' = TRUE
                     /\ data' = InitData(input_dict)
                     /\ state' = Zeros(Len(t))
                     /\ source' = p.source
                     /\ h' = p.h
                     /\ pos' = NoPos
                     /\ vars' = InitVars(input_dict)
                ELSE UNCHANGED << exists, data, vars, state, source, h, pos >>

\* The names used to index the container: active and inactive schema names,
\* the time axis, and a name outside the schema.
IndexKeys == {"time", "speed", "kp", UnknownKey}

\* SatData.__getitem__(var) for a string var
GetitemError(var) ==
    IF InList(var, vars \o << "time" >>) THEN OK ELSE "KeyError"

Getitem(var) == data[var]

SatData_getitem ==
    /\ exists
    /\ \E var \in IndexKeys :
         LET err == GetitemError(var)
         IN  last' = Call("getitem", var, IF err = OK THEN Getitem(var) ELSE << >>, err)
    /\ UNCHANGED << exists, data, vars, state, source, h, pos >>

\* The arrays written: of the container's length, one sample too long, and
\* of length one.
WriteArrays(n) ==
    { [i \in 1..n |-> 4 + i], [i \in 1..(n + 1) |-> 6], << 7 >> }

\* numpy's row assignment self.data[i] = value: value is broadcast to the
\* row's length n (a length-1 value fills the row); any other length raises.
CanBroadcast(value, n) == Len(value) = n \/ Len(value) = 1

Broadcast(value, n) == IF Len(value) = n THEN value ELSE [i \in 1..n |-> value[1]]

\* SatData.__setitem__(var, value) for a string var
SetitemError(var, value) ==
    IF var \notin DefaultKeySet /\ ~InList(var, vars) THEN "KeyError"
    ELSE IF ~CanBroadcast(value, SatLen) THEN "ValueError"
    ELSE OK

\* self.data[SatData.default_keys.index(var)] = value
SetitemData(d, var, value) == [d EXCEPT ![var] = Broadcast(value, Len(d["time"]))]

\* A write that appends the name whether or not it is active, against which
\* C4 is tried.
SetitemVars_AlwaysAppend(v, var) == Append(v, var)

\* self.vars.append(var), in the branch for a schema name not in self.vars
SetitemVars(v, var) == IF InList(var, v) THEN v ELSE Append(v, var)

SatData_setitem ==
    /\ exists
    /\ \E var \in IndexKeys, value \in WriteArrays(SatLen) :
         LET err == SetitemError(var, value)
         IN  /\ last' = Call("setitem", var, value, err)
             /\ IF err = OK
                THEN /\ data' = SetitemData(data, var, value)
                     /\ vars' = SetitemVars(vars, var)
                ELSE UNCHANGED << data, vars >>
    /\ UNCHANGED << exists, state, source, h, pos >>

\* ------------------------------------------------------- PositionData
\* heliosat's trajectory(t): the position of the body at time t, as (x, y, z).
\* The body moves in the plane z = 0: on the x axis at distance 1 at even
\* times, on the y axis at distance 2 at odd times.
Trajectory(t) == IF t % 2 = 0 THEN << 1, 0, 0 >> ELSE << 0, 2, 0 >>

\* cos and sin of a quarter turns
CosQ(a) == CASE a % 4 = 0 -> 1 [] a % 4 = 1 -> 0 [] a % 4 = 2 -> -1 [] OTHER -> 0

SinQ(a) == CASE a % 4 = 0 -> 0 [] a % 4 = 1 -> 1 [] a % 4 = 2 -> 0 [] OTHER -> -1

\* cart2sphere(x, y, z) for a point on an axis of the plane z = 0:
\* (r, theta, phi) with theta the latitude and phi the longitude, both in
\* quarter turns, phi in -1..2 as np.arctan2 gives it.
cart2sphere(x, y, z) ==
    << Abs(x) + Abs(y) + Abs(z),
       IF z > 0 THEN 1 ELSE IF z < 0 THEN -1 ELSE 0,
       IF y > 0 THEN 1 ELSE IF y < 0 THEN -1 ELSE IF x < 0 THEN 2 ELSE 0 >>

\* sphere2cart(r, phi, theta)
sphere2cart(r, phi, theta) ==
    << r * CosQ(theta) * CosQ(phi), r * CosQ(theta) * SinQ(phi), r * SinQ(theta) >>

\* PositionData(posdata, postype): positions is the 3 x N stack of rows
PositionData(rows, postype) == [attached |-> TRUE, coors |-> postype, positions |-> rows]

\* SatData.load_positions(rlonlat) with l1_corr = False
LoadPositionsError == IF h.HeliosatObject THEN OK ELSE "KeyError"

LoadedPositions(time, rlonlat) ==
    LET n == Len(time)
        traj == [i \in 1..n |-> Trajectory(time[i])]
        sph == [i \in 1..n |-> cart2sphere(traj[i][1], traj[i][2], traj[i][3])]
    IN  IF rlonlat
        THEN PositionData(<< [i \in 1..n |-> sph[i][1]],
                             [i \in 1..n |-> sph[i][3]],
                             [i \in 1..n |-> sph[i][2]] >>, "rlonlat")
        ELSE PositionData(<< [i \in 1..n |-> traj[i][1]],
                             [i \in 1..n |-> traj[i][2]],
                             [i \in 1..n |-> traj[i][3]] >>, "xyz")

SatData_load_positions ==
    /\ exists
    /\ \E rlonlat \in BOOLEAN :
         LET err == LoadPositionsError
         IN  /\ last' = Call("load_positions", "", << >>, err)
             /\ pos' = IF err = OK THEN LoadedPositions(data["time"], rlonlat) ELSE pos
    /\ UNCHANGED << exists, data, vars, state, source, h >>

\* PositionData.__getitem__(var) for a string var: the row of a component of
\* the stored convention
PosCoors(p) == IF p.coors = "xyz" THEN << "x", "y", "z" >> ELSE << "r", "lon", "lat" >>

PosHas(p, var) == InList(var, PosCoors(p))

PosRow(p, var) == p.positions[CHOOSE i \in 1..3 : PosCoors(p)[i] = var]

\* PositionData.__getitem__(var) for an index var: self.positions[:,var]
PosAt(p, i) == << p.positions[1][i], p.positions[2][i], p.positions[3][i] >>

\* The indices np.where(date2num(timestamp) < self.data[0]) finds
LaterInds(timestamp) == {i \in 1..SatLen : timestamp < data["time"][i]}

\* tind = np.where(...)[0][0]
tind(timestamp) == CHOOSE i \in LaterInds(timestamp) : \A j \in LaterInds(timestamp) : i <= j

\* The error get_position raises, or OK: no positions, no later sample, and
\* positions shorter than the time axis
GetPositionError(timestamp) ==
    IF ~pos.attached THEN "MissingPosition"
    ELSE IF LaterInds(timestamp) = {} THEN "IndexError"
    ELSE IF tind(timestamp) > PosLen THEN "IndexError"
    ELSE OK

\* SatData.get_position(timestamp)
SatData_get_position ==
    /\ exists
    /\ \E timestamp \in 0..MaxT :
         LET err == GetPositionError(timestamp)
         IN  last' = [Call("get_position", "",
                           IF err = OK THEN PosAt(pos, tind(timestamp)) ELSE << >>, err)
                         EXCEPT !.arg = << timestamp >>]
    /\ UNCHANGED << exists, data, vars, state, source, h, pos >>

\* ------------------------------------------------------------------ cut
\* An optional argument: None, or a value
None == << >>

Some(x) == << x >>

\* The bounds given to cut: None, or a time
CutBounds == {None} \cup {Some(t) : t \in 0..(MaxT + 1)}

\* A cut that keeps the samples at the end bound too, against which C5 is
\* tried.
CutInds_EndInclusive(time, starttime, endtime) ==
    SortedSeq({i \in 1..Len(time) :
        /\ (starttime # None => time[i] >= starttime[1])
        /\ (endtime # None => time[i] <= endtime[1])})

\* new_inds of SatData.cut(starttime, endtime): every index when neither
\* bound is given (nothing is sliced then)
CutInds(time, starttime, endtime) ==
    SortedSeq({i \in 1..Len(time) :
        /\ (starttime # None => time[i] >= starttime[1])
        /\ (endtime # None => time[i] < endtime[1])})

\* A cut that restricts the time axis alone, against which C1 is tried.
CutData_TimeOnly(d, inds) == [d EXCEPT !["time"] = Take(d["time"], inds)]

\* self.data = self.data[:,new_inds]
CutData(d, inds) == [k \in DOMAIN d |-> Take(d[k], inds)]

\* A cut that leaves the positions as they were, against which C6 is tried.
CutPositions_Unsliced(p, inds) == p

\* self.pos.positions = self.pos.positions[:,new_inds]
CutPositions(p, inds) ==
    [p EXCEPT !.positions = [c \in 1..3 |-> Take(p.positions[c], inds)]]

\* Indexing the position rows by indices of the data raises IndexError when
\* a retained index lies beyond the position rows.
CutError(inds) ==
    IF pos.attached /\ \E j \in 1..Len(inds) : inds[j] > PosLen
    THEN "IndexError" ELSE OK

SatData_cut ==
    /\ exists
    /\ \E starttime \in CutBounds, endtime \in CutBounds :
         LET inds == CutInds(data["time"], starttime, endtime)
             sliced == starttime # None \/ endtime # None
             err == IF sliced THEN CutError(inds) ELSE OK
         IN  /\ last' = CallArgs("cut", << starttime, endtime >>, err)
             /\ data' = IF sliced THEN CutData(data, inds) ELSE data
             /\ pos' = IF sliced /\ pos.attached /\ err = OK
                       THEN CutPositions(pos, inds) ELSE pos
    /\ UNCHANGED << exists, vars, state, source, h >>

\* -------------------------------------------------- frame conversions
\* 3-vectors and 3 x 3 matrices (rows of rows)
Dot(u, v) == u[1] * v[1] + u[2] * v[2] + u[3] * v[3]

Cross(u, v) ==
    << u[2] * v[3] - u[3] * v[2], u[3] * v[1] - u[1] * v[3], u[1] * v[2] - u[2] * v[1] >>

Scale(c, u) == << c * u[1], c * u[2], c * u[3] >>

VecAdd(u, v) == << u[1] + v[1], u[2] + v[2], u[3] + v[3] >>

\* np.dot(M, v)
MatVec(M, v) == << Dot(M[1], v), Dot(M[2], v), Dot(M[3], v) >>

Col(M, j) == << M[1][j], M[2][j], M[3][j] >>

\* np.dot(A, B)
MatMul(A, B) == [i \in 1..3 |-> [j \in 1..3 |-> Dot(A[i], Col(B, j))]]

\* [[cos a, sin a, 0], [-sin a, cos a, 0], [0, 0, 1]], a in quarter turns
RotZ(a) == << << CosQ(a), SinQ(a), 0 >>, << -SinQ(a), CosQ(a), 0 >>, << 0, 0, 1 >> >>

\* [[1, 0, 0], [0, cos a, sin a], [0, -sin a, cos a]], a in quarter turns
RotX(a) == << << 1, 0, 0 >>, << 0, CosQ(a), SinQ(a) >>, << 0, -SinQ(a), CosQ(a) >> >>

\* v / np.linalg.norm(v) for a vector along an axis; NaN components for the
\* zero vector (0/0)
NaN == 0 - 999

Norm1(v) == Abs(v[1]) + Abs(v[2]) + Abs(v[3])

\* A vector left at its length, against which C25 is tried.
Normalized_Unscaled(v) == v

Normalized(v) ==
    IF Norm1(v) = 0 THEN << NaN, NaN, NaN >>
    ELSE << v[1] \div Norm1(v), v[2] \div Norm1(v), v[3] \div Norm1(v) >>

HasNaN(v) == v[1] = NaN \/ v[2] = NaN \/ v[3] = NaN

\* The b vector of sample i in three named rows
Vec3(d, kx, ky, kz, i) == << d[kx][i], d[ky][i], d[kz][i] >>

\* The first of the names that __getitem__ would reject, or OK
RECURSIVE ReadError(_)
ReadError(names) ==
    IF names = << >> THEN OK
    ELSE IF GetitemError(Head(names)) # OK THEN GetitemError(Head(names))
    ELSE ReadError(Tail(names))

\* Three successive writes self['bx'], self['by'], self['bz'] = rows
WriteB(d, rows) ==
    SetitemData(SetitemData(SetitemData(d, "bx", rows[1]), "by", rows[2]), "bz", rows[3])

WriteBVars(v) == SetitemVars(SetitemVars(SetitemVars(v, "bx"), "by"), "bz")

\* The three rows of a sequence of vectors
RowsOf(vs) == [c \in 1..3 |-> [i \in 1..Len(vs) |-> vs[i][c]]]

\* heliosat.spice.transform_frame for one sample: it raises for a frame name
\* it does not know (here: anything but a single known name), and rotates
\* about the z axis by an angle that depends on the two frames and the time.
KnownFrames == {"GSE", "GSM", "HEEQ", "RTN"}

FrameTargets == {"GSM", "HEEQ"}

TransformError(from) ==
    IF Len(from) = 1 /\ from[1] \in KnownFrames THEN OK ELSE "FrameError"

transform_frame(t, b, from, to) == IF from = to THEN b ELSE MatVec(RotZ(t + 1), b)

\* SatData.convert_mag_to(refframe)
ConvertMagToError ==
    IF ReadError(<< "bx", "by", "bz" >>) # OK THEN ReadError(<< "bx", "by", "bz" >>)
    ELSE TransformError(h.ReferenceFrame)

ConvertMagToLabel(label, refframe) == << refframe >>

SatData_convert_mag_to ==
    /\ exists
    /\ \E refframe \in FrameTargets :
         LET err == ConvertMagToError
             b == [i \in 1..SatLen |->
                     transform_frame(data["time"][i], Vec3(data, "bx", "by", "bz", i),
                                     h.ReferenceFrame[1], refframe)]
         IN  /\ last' = Call("convert_mag_to", refframe, << >>, err)
             /\ IF err = OK
                THEN /\ data' = WriteB(data, RowsOf(b))
                     /\ vars' = WriteBVars(vars)
                     /\ h' = [h EXCEPT !.ReferenceFrame =
                                 ConvertMagToLabel(h.ReferenceFrame, refframe)]
                ELSE UNCHANGED << data, vars, h >>
    /\ UNCHANGED << exists, state, source, pos >>

\* psigsm of convert_GSE_to_GSM for a sample at time t: the dipole tilt,
\* computed from the time alone.  It lies between -1 and 1 quarter turn; the
\* model lets it take the values -1, 0 and 1 as the time goes on.
psigsm(t) == (t % 3) - 1

\* GSM = T3 . GSE, T3 the rotation about x by -psigsm
GSE_to_GSM(t, b) == MatVec(RotX(0 - psigsm(t)), b)

\* The read of self['bx'][i], ... in the loop: made only when there is a sample
ConvertGseGsmError ==
    IF SatLen = 0 THEN OK ELSE ReadError(<< "bx", "by", "bz" >>)

\* self.h['ReferenceFrame'].replace('GSE', 'GSM'): the result is dropped, the
\* label stays as it is
ReplacedLabel(label, old, new) == [i \in 1..Len(label) |-> IF label[i] = old THEN new ELSE label[i]]

ConvertGseGsmLabel(label) == label

SatData_convert_GSE_to_GSM ==
    /\ exists
    /\ LET err == ConvertGseGsmError
           b == [i \in 1..SatLen |->
                   GSE_to_GSM(data["time"][i], Vec3(data, "bx", "by", "bz", i))]
       IN  /\ last' = Call("convert_GSE_to_GSM", "", << >>, err)
           /\ IF err = OK
              THEN /\ data' = WriteB(data, RowsOf(b))
                   /\ vars' = WriteBVars(vars)
                   /\ h' = [h EXCEPT !.ReferenceFrame = ConvertGseGsmLabel(h.ReferenceFrame)]
              ELSE UNCHANGED << data, vars, h >>
    /\ UNCHANGED << exists, state, source, pos >>

\* The external position arrays convert_RTN_to_GSE may be given: pos_obj is
\* the stack (r, lon, lat), pos_tnum its times.  Neither, one of the two, or
\* both (positions at times 0 and 1).
ExtRows(tnum) ==
    LET sph == [j \in 1..Len(tnum) |->
                  cart2sphere(Trajectory(tnum[j])[1], Trajectory(tnum[j])[2],
                              Trajectory(tnum[j])[3])]
    IN  << [j \in 1..Len(tnum) |-> sph[j][1]],
           [j \in 1..Len(tnum) |-> sph[j][3]],
           [j \in 1..Len(tnum) |-> sph[j][2]] >>

ExtPositions ==
    { [pos_obj |-> << >>, pos_tnum |-> << >>],
      [pos_obj |-> ExtRows(<< 0, 1 >>), pos_tnum |-> << >>],
      [pos_obj |-> << >>, pos_tnum |-> << 0, 1 >>],
      [pos_obj |-> ExtRows(<< 0, 1 >>), pos_tnum |-> << 0, 1 >>] }

\* The indices np.where(pos_tnum < t) finds
EarlierInds(pos_tnum, t) == {j \in 1..Len(pos_tnum) : pos_tnum[j] < t}

\* time_ind_pos = np.where(pos_tnum < t)[-1][-1]
time_ind_pos(pos_tnum, t) ==
    CHOOSE j \in EarlierInds(pos_tnum, t) : \A k \in EarlierInds(pos_tnum, t) : k <= j

\* "OLD METHOD" is taken when both external arrays are given
OldMethod(ext) == Len(ext.pos_obj) > 0 /\ Len(ext.pos_tnum) > 0

\* The error of looking up the position of sample i, or OK
RtnPosError(ext, i) ==
    IF OldMethod(ext)
    THEN IF EarlierInds(ext.pos_tnum, data["time"][i]) = {} THEN "IndexError" ELSE OK
    ELSE IF ~pos.attached THEN "AttributeError"
    ELSE IF i > PosLen THEN "IndexError"
    ELSE OK

\* The error of the first loop from sample i on, or OK: for each sample the
\* position is looked up, then br, bt, bn are read
RECURSIVE RtnLoopError(_, _)
RtnLoopError(ext, i) ==
    IF i > SatLen THEN OK
    ELSE IF RtnPosError(ext, i) # OK THEN RtnPosError(ext, i)
    ELSE IF ReadError(<< "br", "bt", "bn" >>) # OK THEN ReadError(<< "br", "bt", "bn" >>)
    ELSE RtnLoopError(ext, i + 1)

\* The test made before the loop: only when both external arrays are empty
RtnPreError(ext) ==
    IF Len(ext.pos_obj) = 0 /\ Len(ext.pos_tnum) = 0 /\ ~pos.attached
    THEN "MissingPosition" ELSE OK

ConvertRtnGseError(ext) ==
    IF RtnPreError(ext) # OK THEN RtnPreError(ext) ELSE RtnLoopError(ext, 1)

\* (xa, ya, za) of sample i.  The division by AU is left out: only the
\* direction of the vector is used.
RtnPosition(ext, i) ==
    IF OldMethod(ext)
    THEN LET j == time_ind_pos(ext.pos_tnum, data["time"][i])
         IN  sphere2cart(ext.pos_obj[1][j], ext.pos_obj[2][j], ext.pos_obj[3][j])
    ELSE IF pos.coors = "rlonlat"
    THEN sphere2cart(PosRow(pos, "r")[i], PosRow(pos, "lon")[i], PosRow(pos, "lat")[i])
    ELSE << pos.positions[1][i], pos.positions[2][i], pos.positions[3][i] >>

\* RTN to HEEQ: the projection of br, bt, bn on the basis built from the
\* position p and the rotation pole
RTN_to_HEEQ(p, b) ==
    LET Z_heeq == << 0, 0, 1 >>
        Xrtn == Normalized(p)
        Yrtn == IF HasNaN(Xrtn) THEN Xrtn ELSE Normalized(Cross(Z_heeq, Xrtn))
        Zrtn == IF HasNaN(Yrtn) THEN Yrtn ELSE Normalized(Cross(Xrtn, Yrtn))
    IN  IF HasNaN(Xrtn) \/ HasNaN(Yrtn) \/ HasNaN(Zrtn) THEN << NaN, NaN, NaN >>
        ELSE VecAdd(VecAdd(Scale(b[1], Xrtn), Scale(b[2], Yrtn)), Scale(b[3], Zrtn))

\* The angles of the HEEQ to HEE rotation, in quarter turns: the Sun's
\* longitude lt2 advances with the time; the node is near 74 degrees (one
\* quarter turn) and the inclination 7.25 degrees (no quarter turn).
lt2(t) == t % 4

omega_node == 1

inclination_ecl == 0

\* np.arctan(np.cos(incl) * np.tan(d)), in quarter turns
theta_node_raw(d) == IF CosQ(inclination_ecl) = 0 \/ d % 2 = 0 THEN 0 ELSE 1

\* "if in same quadrant, then theta_node = theta_node + pi"
theta_node(t) ==
    LET d == (lt2(t) - omega_node) % 4
        th == theta_node_raw(d)
    IN  IF Abs(d - th) < 2 THEN th + 2 ELSE th

HEEQ_to_HEE_matrix(t) ==
    LET S1 == RotZ(lt2(t) + 2)
        S2_omega == RotZ(0 - omega_node)
        S2_incl == RotX(0 - inclination_ecl)
        S2_theta == RotZ(0 - theta_node(t))
        S2 == MatMul(MatMul(S2_omega, S2_incl), S2_theta)
    IN  MatMul(S1, S2)

\* HEEQ to GSE: the rotation, then the change of sign of x and y
HEEQ_to_GSE(t, v) ==
    IF HasNaN(v) THEN v
    ELSE LET HEE == MatVec(HEEQ_to_HEE_matrix(t), v)
         IN  << -HEE[1], -HEE[2], HEE[3] >>

\* self.h['ReferenceFrame'] += '-GSE'
ConvertRtnGseLabel(label) == Append(label, "GSE")

\* SatData.convert_RTN_to_GSE(pos_obj, pos_tnum)
SatData_convert_RTN_to_GSE ==
    /\ exists
    /\ Len(h.ReferenceFrame) < MaxLabel
    /\ \E ext \in ExtPositions :
         LET err == ConvertRtnGseError(ext)
             b == [i \in 1..SatLen |->
                     HEEQ_to_GSE(data["time"][i],
                                 RTN_to_HEEQ(RtnPosition(ext, i),
                                             Vec3(data, "br", "bt", "bn", i)))]
         IN  /\ last' = [Call("convert_RTN_to_GSE", "", << >>, err) EXCEPT
                            !.arg = << << Len(ext.pos_obj) >>, << Len(ext.pos_tnum) >> >>]
             /\ IF err = OK
                THEN /\ data' = WriteB(data, RowsOf(b))
                     /\ vars' = WriteBVars(vars)
                     /\ h' = [h EXCEPT !.ReferenceFrame = ConvertRtnGseLabel(h.ReferenceFrame)]
                ELSE UNCHANGED << data, vars, h >>
    /\ UNCHANGED << exists, state, source, pos >>

\* ------------------------------------------------------ L1 corrections
\* round(a / b) for a >= 0 and b > 0: to the nearest whole number, a half to
\* the even one (Python's round and np.round)
RoundDiv(a, b) ==
    LET q == a \div b
        r == a % b
    IN  IF 2 * r < b THEN q
        ELSE IF 2 * r > b THEN q + 1
        ELSE IF q % 2 = 0 THEN q ELSE q + 1

\* round(-(r - r0) * k / v): the Parker spiral lag, r >= r0, v > 0
ParkerLag(r, r0, k, v) == 0 - RoundDiv((r - r0) * k, v)

\* The lag of a quarter turn of longitude, in time units
LonLag(lon) == Abs(lon)

\* get_l1_position: L1's distance from the Sun at time t
L1_r(t) == 1

\* The factor AU / 86400 of get_time_lag_wrt_earth, in the model's units
ParkerK == 4

RECURSIVE Sum(_)
Sum(row) == IF row = << >> THEN 0 ELSE Head(row) + Sum(Tail(row))

\* np.nanmean of a row without NaN, to a whole number
Mean(row) == Sum(row) \div Len(row)

\* Every stored sample stays within the model's range
InRange(row) == \A i \in 1..Len(row) : Abs(row[i]) <= MaxVal

ShiftMethods == {"old", "new"}

\* shift_time_to_L1(method='old'): the arguments of get_time_lag_wrt_earth are
\* evaluated first (self['time'][-1], self['speed']), then the name is checked
ShiftOldError ==
    IF SatLen = 0 THEN "IndexError"
    ELSE IF GetitemError("speed") # OK THEN GetitemError("speed")
    ELSE IF source \notin {"STEREO-A", "STEREO-B"} THEN "SatNameError"
    ELSE OK

\* lag_l1 + lag_r of get_time_lag_wrt_earth
ShiftOldLag ==
    LET p == Trajectory(data["time"][SatLen])
        sph == cart2sphere(p[1], p[2], p[3])
    IN  LonLag(sph[3]) + ParkerLag(sph[1], 1, ParkerK, Mean(data["speed"]))

ShiftOldTime(time, lag) == [i \in 1..Len(time) |-> time[i] + lag]

\* shift_time_to_L1(method='new'), after the positions are there (p)
ShiftNewError(p) ==
    IF ~PosHas(p, "lon") THEN "PosKeyError"
    ELSE IF SatLen > 0 /\ GetitemError("speed") # OK THEN GetitemError("speed")
    ELSE IF Len(p.positions[1]) < SatLen THEN "IndexError"
    ELSE IF ~CanBroadcast(p.positions[1], SatLen) THEN "ValueError"
    ELSE OK

ShiftNewTime(time, speed, p) ==
    [i \in 1..Len(time) |->
        time[i] + LonLag(PosRow(p, "lon")[i])
                + ParkerLag(PosRow(p, "r")[i], L1_r(time[i]), 1, speed[i])]

SatData_shift_time_to_L1 ==
    /\ exists
    /\ \E method \in ShiftMethods :
         IF method = "old"
         THEN LET err == ShiftOldError
                  t == ShiftOldTime(data["time"], ShiftOldLag)
              IN  /\ err = OK => InRange(t)
                  /\ last' = Call("shift_time_to_L1", method, << >>, err)
                  /\ data' = IF err = OK THEN [data EXCEPT !["time"] = t] ELSE data
                  /\ pos' = pos
         ELSE LET loaderr == IF pos.attached THEN OK ELSE LoadPositionsError
                  p == IF pos.attached THEN pos ELSE LoadedPositions(data["time"], TRUE)
                  err == IF loaderr # OK THEN loaderr ELSE ShiftNewError(p)
                  t == ShiftNewTime(data["time"], data["speed"], p)
              IN  /\ err = OK => InRange(t)
                  /\ last' = Call("shift_time_to_L1", method, << >>, err)
                  /\ data' = IF err = OK THEN [data EXCEPT !["time"] = t] ELSE data
                  /\ pos' = IF loaderr = OK THEN p ELSE pos
    /\ UNCHANGED << exists, vars, state, source, h >>

\* shift_wind_to_L1
shift_var_list == << "btot", "br", "bt", "bn", "bx", "by", "bz", "density" >>

ShiftWindError ==
    IF ~pos.attached THEN "AttributeError"
    ELSE IF ~PosHas(pos, "r") THEN "PosKeyError"
    ELSE IF ~(PosLen = SatLen \/ PosLen = 1 \/ SatLen = 1) THEN "ValueError"
    ELSE IF \E i \in 1..Len(shift_var_list) : InList(shift_var_list[i], vars)
            /\ ~(PosLen = SatLen \/ PosLen = 1)
         THEN "ValueError"
    ELSE OK

\* A correction by the ratio itself and not by its square, against which C21
\* is tried.
corr_factor_Linear(time, p, i) == PosRow(p, "r")[i] \div L1_r(time[i])

\* corr_factor = (L1Pos['r'] / self.pos['r'])**-2
corr_factor(time, p, i) ==
    (PosRow(p, "r")[i] * PosRow(p, "r")[i]) \div (L1_r(time[i]) * L1_r(time[i]))

ShiftWindData(d, v, p) ==
    [k \in DOMAIN d |->
        IF InList(k, shift_var_list) /\ InList(k, v)
        THEN [i \in 1..Len(d[k]) |-> d[k][i] * corr_factor(d["time"], p, i)]
        ELSE d[k]]

SatData_shift_wind_to_L1 ==
    /\ exists
    /\ LET err == ShiftWindError
           d == ShiftWindData(data, vars, pos)
       IN  /\ err = OK => \A k \in DOMAIN d : InRange(d[k])
           /\ last' = Call("shift_wind_to_L1", "", << >>, err)
           /\ data' = IF err = OK THEN d ELSE data
    /\ UNCHANGED << exists, vars, state, source, h, pos >>

\* ------------------------------------- analogue search (predstorm_l1.py)
\* The configured window length in hours (deltat of predstorm_l1_input).
deltat == 2
\* The number of hourly samples of the training data.
MaxTrain == 6

\* The variables searched, in the order of the loop body
AEKeys == << "btot", "bz", "by", "bx", "speed", "density" >>

AEKeySet == {AEKeys[j] : j \in 1..Len(AEKeys)}

\* The variables taken from the magnetic field rows
FieldKeys == {"btot", "bz", "by", "bx"}

\* omni['time']: hourly, counted in hours from the first sample
OmniTime == [j \in 1..MaxTrain |-> j - 1]

\* The now-winds tried, the same for every variable: one sample per hour of
\* the last deltat hours, both ends included; one that alternates and one
\* that is constant.
NowWinds ==
    { [j \in 1..(deltat + 1) |-> j % 2], [j \in 1..(deltat + 1) |-> 0] }

\* The training rows tried for a variable that may miss a value: at most one
\* is missing
AtMostOneNaN(row) == Cardinality({j \in 1..Len(row) : row[j] = NaN}) <= 1

\* The values of a training sample
AEVal == {0, 1}

\* row[a:b]
Slice(row, a, b) ==
    LET e == IF b < Len(row) THEN b ELSE Len(row)
    IN  IF a >= e THEN << >> ELSE SubSeq(row, a + 1, e)

IsNaN(x) == x = NaN

AnyNaN(row) == \E j \in 1..Len(row) : IsNaN(row[j])

\* trainstartnum, trainendnum: date2num(...) - deltat/24, in hours
trainstartnum == trainstart - deltat

trainendnum == trainend - deltat

\* np.where(num > omni['time'])[0]
WhereBefore(num) == {j - 1 : j \in {n \in 1..MaxTrain : num > OmniTime[n]}}

SetMax(S) == CHOOSE x \in S : \A y \in S : y <= x

SetMin(S) == CHOOSE x \in S : \A y \in S : x <= y

\* np.max(np.where(num > omni['time'])) + 1; np.max of an empty array raises
RangeError ==
    IF WhereBefore(trainstartnum) = {} \/ WhereBefore(trainendnum) = {}
    THEN "ValueError"
    ELSE IF SetMax(WhereBefore(trainendnum)) < SetMax(WhereBefore(trainstartnum))
    THEN "ValueError"
    ELSE OK

IndexOf(num) == SetMax(WhereBefore(num)) + 1

\* The training periods tried: the start one or two hours after the first
\* window can begin, the end at the last sample of the data.
TrainStarts == {deltat + 1, deltat + 2}

TrainEnds == {MaxTrain - 1}

\* now - win raises unless the shapes agree or one of them has one element
DistError(now, win) ==
    IF Len(win) = Len(now) \/ Len(win) = 1 \/ Len(now) = 1 THEN OK
    ELSE "ValueError"

\* A distance that sums the differences and not their squares, against which
\* C10 is tried.
Dist_SumOfDifferences(now, win) ==
    LET n == IF Len(now) > Len(win) THEN Len(now) ELSE Len(win)
        a == Broadcast(now, n)
        b == Broadcast(win, n)
    IN  IF AnyNaN(a) \/ AnyNaN(b) THEN NaN
        ELSE Sum([j \in 1..n |-> a[j] - b[j]])

\* The square of n * np.sqrt(np.sum((now-win)**2))/np.size(now), n the size of
\* now: the same order, the same zero and the same NaN as the distance itself
Dist(now, win) ==
    LET n == IF Len(now) > Len(win) THEN Len(now) ELSE Len(win)
        a == Broadcast(now, n)
        b == Broadcast(win, n)
    IN  IF AnyNaN(a) \/ AnyNaN(b) THEN NaN
        ELSE Sum([j \in 1..n |-> (a[j] - b[j]) * (a[j] - b[j])])

\* np.min(d): NaN when d holds a NaN
NpMin(d) ==
    IF AnyNaN(d) THEN NaN ELSE SetMin({d[j] : j \in 1..Len(d)})

\* np.nanmin(d): the minimum of the values that are not NaN
NanMin(d) ==
    LET S == {d[j] : j \in 1..Len(d)} \ {NaN}
    IN  IF S = {} THEN NaN ELSE SetMin(S)

\* np.argmin(d): the index of the first NaN when d holds one, else the first
\* index of the minimum
ArgMin(d) ==
    IF AnyNaN(d) THEN SetMin({j \in 1..Len(d) : IsNaN(d[j])}) - 1
    ELSE SetMin({j \in 1..Len(d) : d[j] = NpMin(d)}) - 1

\* The order of np.argsort: ascending, NaN last.  The default sort
\* (kind='quicksort') is not stable: the order of equal values, and of the
\* NaN among themselves, is whatever the build's sort makes it.
SortsBefore(d, i, j) ==
    IF IsNaN(d[i]) # IsNaN(d[j]) THEN IsNaN(d[j])
    ELSE ~IsNaN(d[i]) /\ d[i] < d[j]

\* The orders of the positions 1..n
Perms(n) == {p \in [1..n -> 1..n] : \A a, b \in 1..n : a # b => p[a] # p[b]}

\* np.argsort(d): the index arrays it may return
ArgSort(d) ==
    {[a \in 1..Len(d) |-> p[a] - 1] :
        p \in {q \in Perms(Len(d)) :
                  \A a, b \in 1..Len(d) : a < b => ~SortsBefore(d, q[b], q[a])}}

\* The size of the ensemble (50 in the program: top50, '50 best matches')
TopK == 2

\* The end of the slice [0:49] that makes top50: one less than the size
TopSlice == TopK - 1

\* The start of the search: one series holds the field variables and one the
\* plasma variables; either may hold missing values.
\* The variables whose ensembles are drawn (panels 1 to 3)
PlotKeys == {"btot", "bz", "speed"}

\* The groups of variables that share one series of the training data
KeyGroups == {FieldKeys, AEKeySet \ FieldKeys, PlotKeys, AEKeySet \ PlotKeys}

\* The training data: two series, one of them with at most one missing
\* value, given to the variables by groups. The first sample lies before
\* every searched range and is never read: it is 0.
InitAE ==
    /\ exists = FALSE
    /\ data = EmptyData
    /\ vars = << >>
    /\ state = << >>
    /\ source = ""
    /\ h = empty_header
    /\ pos = NoPos
    /\ last = NoCall
    /\ ncalls = 0
    /\ \E A \in {r \in [1..MaxTrain -> AEVal \cup {NaN}] : AtMostOneNaN(r) /\ r[1] = 0},
          B \in {r \in [1..MaxTrain -> AEVal] : r[1] = 0}, G \in KeyGroups :
         omni = [k \in AEKeySet |-> IF k \in G THEN A ELSE B]
    /\ \E w \in NowWinds : nowwind = [k \in AEKeySet |-> w]
    /\ trainstart \in TrainStarts
    /\ trainend \in TrainEnds
    /\ startindex = 0
    /\ endindex = 0
    /\ loop_i = 0
    /\ dist_count = << >>
    /\ maxval = << >>
    /\ maxpos = << >>
    /\ top50 = << >>
    /\ pred = << >>
    /\ timesdst = << >>
    /\ vardst = << >>
    /\ stage = "idle"
    /\ satdata1 = NoSat
    /\ satdata2 = NoSat
    /\ ret = NoRet
    /\ loop = NoLoop

\* startindex, endindex, trainsize and the np.zeros(trainsize) arrays
AE_range ==
    /\ stage = "idle"
    /\ omni # << >>
    /\ IF RangeError # OK
       THEN /\ stage' = RangeError
            /\ UNCHANGED << startindex, endindex, dist_count >>
       ELSE /\ startindex' = IndexOf(trainstartnum)
            /\ endindex' = IndexOf(trainendnum)
            /\ dist_count' = [k \in AEKeySet |->
                   Zeros(IndexOf(trainendnum) - IndexOf(trainstartnum))]
            /\ stage' = "slide"
    /\ UNCHANGED << omni, nowwind, trainstart, trainend, loop_i, maxval, maxpos,
                    top50, pred, timesdst, vardst >>
    /\ UNCHANGED << sat_vars, ncalls, fn_vars >>

trainsize == endindex - startindex

\* The window of variable k that starts at index inds
Window(k, inds) == Slice(omni[k], inds, inds + deltat + 1)

\* One iteration of `for i in np.arange(0,trainsize)`
AE_slide ==
    /\ stage = "slide"
    /\ loop_i < trainsize
    /\ LET inds == startindex + loop_i
       IN  IF \E k \in AEKeySet : DistError(nowwind[k], Window(k, inds)) # OK
           THEN /\ stage' = "ValueError"
                /\ UNCHANGED << dist_count, loop_i >>
           ELSE /\ dist_count' = [k \in AEKeySet |->
                      [dist_count[k] EXCEPT ![loop_i + 1] =
                           Dist(nowwind[k], Window(k, inds))]]
                /\ loop_i' = loop_i + 1
                /\ stage' = stage
    /\ UNCHANGED << omni, nowwind, trainstart, trainend, startindex, endindex,
                    maxval, maxpos, top50, pred, timesdst, vardst >>
    /\ UNCHANGED << sat_vars, ncalls, fn_vars >>

\* maxval_b = np.min(dist_count_b); the other variables use np.nanmin
MaxVal_of(k, d) == IF k = "btot" THEN NpMin(d) ELSE NanMin(d)

\* indp = startindex + maxpos + deltat
indp(k, d) == startindex + ArgMin(d) + deltat

\* One result of np.argsort for each of the arrays ds: the same array is
\* ordered the same way each time
Orders(ds) ==
    {f \in [ds -> UNION {ArgSort(d) : d \in ds}] : \A d \in ds : f[d] \in ArgSort(d)}

\* The selections after the loop; np.min of an empty array raises
AE_select ==
    /\ stage = "slide"
    /\ loop_i = trainsize
    /\ IF trainsize = 0
       THEN /\ stage' = "ValueError"
            /\ UNCHANGED << maxval, maxpos, top50, pred >>
       ELSE /\ maxval' = [k \in AEKeySet |-> MaxVal_of(k, dist_count[k])]
            /\ maxpos' = [k \in AEKeySet |-> ArgMin(dist_count[k])]
            /\ \E order \in Orders({dist_count[k] : k \in AEKeySet}) :
                  top50' = [k \in AEKeySet |-> Slice(order[dist_count[k]], 0, TopSlice)]
            /\ pred' = [k \in AEKeySet |->
                   Slice(omni[k], indp(k, dist_count[k]),
                         indp(k, dist_count[k]) + deltat + 1)]
            /\ stage' = "done"
    /\ UNCHANGED << omni, nowwind, trainstart, trainend, startindex, endindex,
                    loop_i, dist_count, timesdst, vardst >>
    /\ UNCHANGED << sat_vars, ncalls, fn_vars >>

\* timesnb, timesnp: the hours of the now-wind, counted from the time now
timesnb == [j \in 1..(deltat + 1) |-> j - 1 - deltat]

\* timesfb, timesfp: the hours of the forecast, the time now included
timesfb == [j \in 1..(deltat + 1) |-> j - 1]

\* The trace of variable k that starts at index ind
Trace(k, ind) == Slice(omni[k], ind, ind + deltat + 1)

\* The panels: `for j in np.arange(49)` reads top50[j], and plot_date raises
\* for a trace that has not the length of its time axis
PlotError ==
    IF \E k \in PlotKeys : Len(top50[k]) < TopSlice THEN "IndexError"
    ELSE IF \E k \in PlotKeys :
               \/ \E j \in 1..TopSlice :
                     \/ Len(Trace(k, startindex + top50[k][j])) # Len(timesnb)
                     \/ Len(Trace(k, startindex + top50[k][j] + deltat)) # Len(timesfb)
               \/ Len(pred[k]) # Len(timesfb)
         THEN "ValueError"
    ELSE OK

\* btotdst[25:49] = btotp[1:] raises unless btotp[1:] has the length of the
\* slice or length one
AssembleError ==
    IF \E k \in AEKeySet : pred[k] = << >> \/ ~CanBroadcast(Tail(pred[k]), deltat)
    THEN "ValueError" ELSE OK

\* xdst = np.zeros(size(timesnb)+size(timesfb)-1); xdst[:25] = now;
\* xdst[25:49] = p[1:]
Assembled(now, p) == now \o Broadcast(Tail(p), Len(now) - 1)

\* The panels and the arrays of observed and predicted wind
AE_assemble ==
    /\ stage = "done"
    /\ LET err == IF PlotError # OK THEN PlotError ELSE AssembleError
       IN  IF err # OK
           THEN /\ stage' = err
                /\ UNCHANGED << timesdst, vardst >>
           ELSE /\ timesdst' = Assembled(timesnb, timesfb)
                /\ vardst' = [k \in AEKeySet |-> Assembled(nowwind[k], pred[k])]
                /\ stage' = "assembled"
    /\ UNCHANGED << omni, nowwind, trainstart, trainend, startindex, endindex,
                    loop_i, dist_count, maxval, maxpos, top50, pred >>
    /\ UNCHANGED << sat_vars, ncalls, fn_vars >>

\* ------------------------------ merge_Data, interp_to_time, make_hourly
\* One call is followed: the three functions write to no container, so a
\* second call finds what the first one found.
\* Times are counted in units of which an hour holds two and a minute is
\* one; a sampling rate is a number of units.
\* 1./24.
Hour == 2
\* 1./24./60.
Minute == 1
\* 0.0001: less than the difference of any two rates
Eps == 1
\* Largest time of a container that is merged or interpolated
MaxGrid == 6

RECURSIVE Fact(_)
Fact(n) == IF n <= 1 THEN 1 ELSE n * Fact(n - 1)

\* Samples are multiples of Unit, so that every linear interpolation between
\* two of them, at a whole time, is a whole number
Unit == Fact(MaxGrid)

StrictlyIncreasing(row) == \A a, b \in 1..Len(row) : a < b => row[a] < row[b]

\* The time axes of the containers: increasing, as np.interp requires of xp
GridTimes == {t \in SeqsUpTo(0..MaxGrid, MaxLen) : StrictlyIncreasing(t)}

\* np.interp(x, xp, fp) at one point x, for a non-empty increasing xp: the
\* end values outside of xp, linear between two neighbours
Interp1(x, xp, fp) ==
    IF x <= xp[1] THEN fp[1]
    ELSE IF x >= xp[Len(xp)] THEN fp[Len(xp)]
    ELSE LET i == CHOOSE j \in 1..(Len(xp) - 1) : xp[j] <= x /\ x < xp[j + 1]
         IN  fp[i] + ((x - xp[i]) * (fp[i + 1] - fp[i])) \div (xp[i + 1] - xp[i])

np_interp(x, xp, fp) == [j \in 1..Len(x) |-> Interp1(x[j], xp, fp)]

\* np.arange(start, stop, step) for step > 0
np_arange(start, stop, step) ==
    [j \in 1..(IF stop > start THEN (stop - start + step - 1) \div step ELSE 0) |->
        start + (j - 1) * step]

\* SatData(input_dict, source=source, header=header) for an input_dict the
\* constructor accepts
SatData(input_dict, src, header) ==
    [data |-> InitData(input_dict), vars |-> InitVars(input_dict), h |-> header,
     source |-> src, pos |-> NoPos]

\* sat[var] for a string var
SatGetitemError(sat, var) ==
    IF InList(var, sat.vars \o << "time" >>) THEN OK ELSE "KeyError"

\* No container of the methods above, and no call counted
NoContainer ==
    /\ exists = FALSE
    /\ data = EmptyData
    /\ vars = << >>
    /\ state = << >>
    /\ source = ""
    /\ h = empty_header
    /\ pos = NoPos
    /\ last = NoCall
    /\ ncalls = 0

\* No analogue search
NoSearch ==
    /\ omni = << >>
    /\ nowwind = << >>
    /\ trainstart = 0
    /\ trainend = 0
    /\ startindex = 0
    /\ endindex = 0
    /\ loop_i = 0
    /\ dist_count = << >>
    /\ maxval = << >>
    /\ maxpos = << >>
    /\ top50 = << >>
    /\ pred = << >>
    /\ timesdst = << >>
    /\ vardst = << >>
    /\ stage = "idle"

\* The containers given to the three functions: a time axis t, the
\* variables V with samples that differ between neighbours, a header hd, a
\* source name and positions or none
Container(t, V, hd, src, p) ==
    [SatData([k \in V \cup {"time"} |->
                 IF k = "time" THEN t ELSE [i \in 1..Len(t) |-> Unit * Sample(k, i)]],
             src, hd) EXCEPT !.pos = p]

\* h['SamplingRate'] as the readers set it and as the constructor leaves it
Rates == {None, Some(Minute), Some(Hour), Some(Hour + 1)}

Headers1 ==
    {[SamplingRate |-> r, ReferenceFrame |-> "GSE", Instruments |-> << "MAG", "FC" >>] :
        r \in Rates}

Headers2 ==
    {[SamplingRate |-> Some(Hour), ReferenceFrame |-> "RTN", Instruments |-> i] :
        i \in {<< "MAG" >>, << "PLASTIC", "IMPACT" >>}}

VarSets == {{"speed"}, {"speed", "bz"}}

InitMerge ==
    /\ NoContainer
    /\ NoSearch
    /\ \E t \in GridTimes, V \in VarSets, hd \in Headers1 :
          satdata1 = Container(t, V, hd, << "DSCOVR" >>, NoPos)
    /\ \E t \in GridTimes, V \in VarSets, hd \in Headers2 :
          satdata2 = Container(t, V, hd, << "STEREO-A" >>, NoPos)
    /\ ret = NoRet
    /\ loop = NoLoop

\* keys of merge_Data: None, or a list
MergeKeyArgs == {None, Some(<< "speed" >>), Some(<< "bz" >>)}

\* keys = list(set(satdata1.vars).intersection(satdata2.vars)), here in the
\* order of the schema (the order of a set is not defined)
MergeKeys(s1, s2, keys) ==
    IF keys = None
    THEN Filter(default_keys, SeqToSet(s1.vars) \cap SeqToSet(s2.vars))
    ELSE keys[1]

Last(row) == row[Len(row)]

\* timestep, from satdata1.h['SamplingRate']
timestep(s1) ==
    LET rate == s1.h.SamplingRate[1]
    IN  IF rate - Hour < Eps THEN Hour
        ELSE IF rate - Minute < Eps THEN Minute
        ELSE rate

n_timesteps(s1, s2) ==
    Len(np_arange(Last(s1.data["time"]) + timestep(s1), Last(s2.data["time"]),
                  timestep(s1)))

\* satdata1['time'][-1] + np.arange(1, n_timesteps) * timestep
new_time(s1, s2) ==
    [j \in 1..(n_timesteps(s1, s2) - 1) |-> Last(s1.data["time"]) + j * timestep(s1)]

\* datadict: 'time' first, then every key in turn
datadict(s1, s2, keys) ==
    LET K == MergeKeys(s1, s2, keys)
    IN  [k \in SeqToSet(K) \cup {"time"} |->
            IF InList(k, K)
            THEN s1.data[k] \o np_interp(new_time(s1, s2), s2.data["time"], s2.data[k])
            ELSE s1.data["time"] \o new_time(s1, s2)]

\* The error merge_Data raises, or OK: a key that satdata2 has not, a
\* SamplingRate of None, an empty time axis, a key that satdata1 has not,
\* and new_time[0] of an empty continuation
MergeError(s1, s2, keys) ==
    LET K == MergeKeys(s1, s2, keys)
    IN  IF \E i \in 1..Len(K) : ~InList(K[i], s2.vars) THEN "Exception"
        ELSE IF s1.h.SamplingRate = None THEN "TypeError"
        ELSE IF s1.data["time"] = << >> \/ s2.data["time"] = << >> THEN "IndexError"
        ELSE IF \E i \in 1..Len(K) : SatGetitemError(s1, K[i]) # OK THEN "KeyError"
        ELSE IF InitError(datadict(s1, s2, keys)) # OK THEN InitError(datadict(s1, s2, keys))
        ELSE IF new_time(s1, s2) = << >> THEN "IndexError"
        ELSE OK

MergedData(s1, s2, keys) ==
    [SatData(datadict(s1, s2, keys), s1.source \o << "+" >> \o s2.source,
             empty_header_fields)
        EXCEPT !.h = [SamplingRate |-> Some(timestep(s1)),
                      ReferenceFrame |-> s1.h.ReferenceFrame,
                      Instruments |-> s1.h.Instruments \o s2.h.Instruments]]

merge_Data ==
    /\ satdata1 # NoSat /\ satdata2 # NoSat
    /\ ret = NoRet
    /\ \E keys \in MergeKeyArgs :
          LET err == MergeError(satdata1, satdata2, keys)
          IN  ret' = [op |-> "merge_Data", tarray |-> << >>, keys |-> keys, err |-> err,
                      out |-> IF err = OK THEN MergedData(satdata1, satdata2, keys)
                              ELSE NoSat]
    /\ UNCHANGED << satdata1, satdata2 >>
    /\ UNCHANGED << sat_vars, ncalls, ae_vars, loop >>

\* The positions of a container with the time axis t, in units of 1/Unit
GridPositions(t) ==
    LET p == LoadedPositions(t, TRUE)
    IN  PositionData([c \in 1..3 |-> [i \in 1..Len(t) |-> Unit * p.positions[c][i]]],
                     p.coors)

InitInterp ==
    /\ NoContainer
    /\ NoSearch
    /\ \E t \in GridTimes, V \in VarSets, withpos \in BOOLEAN :
          satdata1 = Container(t, V,
                               [SamplingRate |-> Some(Minute), ReferenceFrame |-> "GSE",
                                Instruments |-> << "MAG", "FC" >>],
                               << "DSCOVR" >>,
                               IF withpos THEN GridPositions(t) ELSE NoPos)
    /\ satdata2 = NoSat
    /\ ret = NoRet
    /\ loop = NoLoop

\* satdata1['time'] = satdata1['time']: __setitem__ with the name 'time',
\* which is in the schema and not in self.vars
setitem_time ==
    /\ satdata1 # NoSat
    /\ ~InList("time", satdata1.vars)
    /\ ret = NoRet
    /\ satdata1' = [satdata1 EXCEPT
                       !.data = SetitemData(@, "time", satdata1.data["time"]),
                       !.vars = SetitemVars(@, "time")]
    /\ ret' = NoRet
    /\ UNCHANGED satdata2
    /\ UNCHANGED << sat_vars, ncalls, ae_vars, loop >>

\* tarray and keys of interp_to_time
TArrays == SeqsUpTo(0..MaxGrid, MaxLen)

InterpKeyArgs == {None, Some(<< "speed" >>), Some(<< >>)}

\* data_dict = {'time': tarray}, then data_dict[k] for every k in self.vars
data_dict(s, tarray) ==
    [k \in SeqToSet(s.vars) \cup {"time"} |->
        IF InList(k, s.vars) THEN np_interp(tarray, s.data["time"], s.data[k])
        ELSE tarray]

\* The error interp_to_time raises, or OK: tarray[1] of a tarray shorter
\* than two, self['time'][0] of an empty container
InterpToTimeError(s, tarray) ==
    IF Len(tarray) < 2 THEN "IndexError"
    ELSE IF s.data["time"] = << >> THEN "IndexError"
    ELSE InitError(data_dict(s, tarray))

\* PositionData.interp_to_time(t_orig, t_new)
PositionData_interp_to_time(p, t_orig, t_new) ==
    PositionData([c \in 1..3 |-> np_interp(t_new, t_orig, p.positions[c])], p.coors)

\* newData of interp_to_time(tarray, keys): keys is not read
newData(s, tarray, keys) ==
    [SatData(data_dict(s, tarray), s.source,
             [s.h EXCEPT !.SamplingRate = Some(tarray[2] - tarray[1])])
        EXCEPT !.pos = IF s.pos.attached
                       THEN PositionData_interp_to_time(s.pos, s.data["time"], tarray)
                       ELSE NoPos]

SatData_interp_to_time ==
    /\ satdata1 # NoSat
    /\ ret = NoRet
    /\ \E tarray \in TArrays, keys \in InterpKeyArgs :
          LET err == InterpToTimeError(satdata1, tarray)
          IN  ret' = [op |-> "interp_to_time", tarray |-> tarray, keys |-> keys,
                      err |-> err,
                      out |-> IF err = OK THEN newData(satdata1, tarray, keys) ELSE NoSat]
    /\ UNCHANGED << satdata1, satdata2 >>
    /\ UNCHANGED << sat_vars, ncalls, ae_vars, loop >>

\* stime = self['time'][0] - self['time'][0]%(1./24.)
stime(s) == s.data["time"][1] - (s.data["time"][1] % Hour)

\* time_h = stime + np.arange(0, nhours)*(1./24.), nhours the hours from
\* stime to the last sample
time_h(s) == np_arange(stime(s), Last(s.data["time"]), Hour)

MakeHourlyError(s) ==
    IF s.data["time"] = << >> THEN "IndexError" ELSE InterpToTimeError(s, time_h(s))

SatData_make_hourly_data ==
    /\ satdata1 # NoSat
    /\ ret = NoRet
    /\ LET err == MakeHourlyError(satdata1)
       IN  ret' = [op |-> "make_hourly_data",
                   tarray |-> IF satdata1.data["time"] = << >> THEN << >>
                              ELSE time_h(satdata1),
                   keys |-> None, err |-> err,
                   out |-> IF err = OK THEN newData(satdata1, time_h(satdata1), None)
                           ELSE NoSat]
    /\ UNCHANGED << satdata1, satdata2 >>
    /\ UNCHANGED << sat_vars, ncalls, ae_vars, loop >>

\* ------------------------------------------- the loops, in any order
\* The loops over the samples: the sliding window analysis ("slide"), the
\* loop of convert_GSE_to_GSM ("gsm") and the two loops of convert_RTN_to_GSE
\* ("heeq", then "gse" on the arrays "heeq" filled).  An iteration is one
\* step; the iterations of a loop are taken in any order.

\* The number of iterations
LoopLen(name) == IF name = "slide" THEN trainsize ELSE SatLen

\* The output arrays before the loop: np.zeros(trainsize) for each variable,
\* np.zeros(len(self['time'])) for each component
LoopZeros(name) ==
    IF name = "slide" THEN [k \in AEKeySet |-> Zeros(LoopLen(name))]
    ELSE [i \in 1..LoopLen(name) |-> << 0, 0, 0 >>]

\* What iteration i computes from the arrays the loop reads
SlotValue(name, in, i) ==
    CASE name = "slide" ->
            [k \in AEKeySet |-> Dist(nowwind[k], Window(k, startindex + (i - 1)))]
      [] name = "gsm" ->
            GSE_to_GSM(data["time"][i], Vec3(data, "bx", "by", "bz", i))
      [] name = "heeq" ->
            RTN_to_HEEQ(RtnPosition(in, i), Vec3(data, "br", "bt", "bn", i))
      [] OTHER ->
            HEEQ_to_GSE(data["time"][i], in[i])

ReadSlot(name, out, i) ==
    IF name = "slide" THEN [k \in AEKeySet |-> out[k][i]] ELSE out[i]

WriteSlot(name, out, i, v) ==
    IF name = "slide" THEN [k \in AEKeySet |-> [out[k] EXCEPT ![i] = v[k]]]
    ELSE [out EXCEPT ![i] = v]

\* An iteration that takes over the slot of the iteration before it, against
\* which C24 is tried.
LoopBody_Carried(name, in, out, i) ==
    WriteSlot(name, out, i,
              IF i > 1 THEN ReadSlot(name, out, i - 1) ELSE SlotValue(name, in, i))

\* Iteration i: the output arrays after it
LoopBody(name, in, out, i) == WriteSlot(name, out, i, SlotValue(name, in, i))

\* The output arrays after the iterations i..n in the order of the program
RECURSIVE Sequential(_, _, _, _, _)
Sequential(name, in, out, i, n) ==
    IF i > n THEN out
    ELSE Sequential(name, in, LoopBody(name, in, out, i), i + 1, n)

StartLoop(name, arg, in) ==
    [name |-> name, todo |-> 1..LoopLen(name), arg |-> arg, in |-> in,
     out |-> LoopZeros(name)]

\* The sliding window analysis begins: no window raises
Loop_start_slide ==
    /\ stage = "slide" /\ loop = NoLoop /\ loop_i = 0 /\ trainsize > 0
    /\ \A i \in 1..trainsize, k \in AEKeySet :
          DistError(nowwind[k], Window(k, startindex + (i - 1))) = OK
    /\ loop' = StartLoop("slide", << >>, << >>)
    /\ UNCHANGED << sat_vars, ncalls, ae_vars, satdata1, satdata2, ret >>

\* The loop of convert_GSE_to_GSM begins
Loop_start_gsm ==
    /\ exists /\ loop = NoLoop /\ SatLen > 0
    /\ ConvertGseGsmError = OK
    /\ loop' = StartLoop("gsm", << >>, << >>)
    /\ UNCHANGED << sat_vars, ncalls, ae_vars, satdata1, satdata2, ret >>

\* The first loop of convert_RTN_to_GSE begins
Loop_start_heeq ==
    /\ exists /\ loop = NoLoop /\ SatLen > 0
    /\ Len(h.ReferenceFrame) < MaxLabel
    /\ \E ext \in ExtPositions :
          /\ ConvertRtnGseError(ext) = OK
          /\ loop' = StartLoop("heeq", ext, ext)
    /\ UNCHANGED << sat_vars, ncalls, ae_vars, satdata1, satdata2, ret >>

\* The second loop of convert_RTN_to_GSE begins, on heeq_bx, heeq_by, heeq_bz
Loop_start_gse ==
    /\ loop.name = "heeq" /\ loop.todo = {}
    /\ loop' = StartLoop("gse", loop.arg, loop.out)
    /\ UNCHANGED << sat_vars, ncalls, ae_vars, satdata1, satdata2, ret >>

\* One iteration, any of those still to run
Loop_iter ==
    /\ loop.name # "none"
    /\ \E i \in loop.todo :
          loop' = [loop EXCEPT !.todo = @ \ {i},
                               !.out = LoopBody(loop.name, loop.in, loop.out, i)]
    /\ UNCHANGED << sat_vars, ncalls, ae_vars, satdata1, satdata2, ret >>

\* After the sliding window analysis: dist_count_b, ... are filled
Loop_end_slide ==
    /\ loop.name = "slide" /\ loop.todo = {}
    /\ dist_count' = loop.out
    /\ loop_i' = trainsize
    /\ loop' = NoLoop
    /\ UNCHANGED << omni, nowwind, trainstart, trainend, startindex, endindex,
                    maxval, maxpos, top50, pred, timesdst, vardst, stage >>
    /\ UNCHANGED << sat_vars, ncalls, satdata1, satdata2, ret >>

\* After the loop of convert_GSE_to_GSM: self['bx'] = bxgsm, ...
Loop_end_gsm ==
    /\ loop.name = "gsm" /\ loop.todo = {}
    /\ last' = Call("convert_GSE_to_GSM", "", << >>, OK)
    /\ data' = WriteB(data, RowsOf(loop.out))
    /\ vars' = WriteBVars(vars)
    /\ h' = [h EXCEPT !.ReferenceFrame = ConvertGseGsmLabel(h.ReferenceFrame)]
    /\ loop' = NoLoop
    /\ UNCHANGED << exists, state, source, pos >>
    /\ UNCHANGED << ncalls, ae_vars, satdata1, satdata2, ret >>

\* After the second loop of convert_RTN_to_GSE: self['bx'] = bxgse, ...
Loop_end_gse ==
    /\ loop.name = "gse" /\ loop.todo = {}
    /\ last' = [Call("convert_RTN_to_GSE", "", << >>, OK) EXCEPT
                   !.arg = << << Len(loop.arg.pos_obj) >>, << Len(loop.arg.pos_tnum) >> >>]
    /\ data' = WriteB(data, RowsOf(loop.out))
    /\ vars' = WriteBVars(vars)
    /\ h' = [h EXCEPT !.ReferenceFrame = ConvertRtnGseLabel(h.ReferenceFrame)]
    /\ loop' = NoLoop
    /\ UNCHANGED << exists, state, source, pos >>
    /\ UNCHANGED << ncalls, ae_vars, satdata1, satdata2, ret >>

\* ------------------------------------------------------ specifications
\* A call that is not counted, and one that is (SpecAll bounds the number of
\* calls made on a container).
Construct == SatData_init /\ UNCHANGED << ncalls, ae_vars, fn_vars >>

Do_getitem == SatData_getitem /\ UNCHANGED << ncalls, ae_vars, fn_vars >>

Do_setitem == SatData_setitem /\ UNCHANGED << ncalls, ae_vars, fn_vars >>

Do_load_positions == SatData_load_positions /\ UNCHANGED << ncalls, ae_vars, fn_vars >>

Do_cut == SatData_cut /\ UNCHANGED << ncalls, ae_vars, fn_vars >>

Do_convert_mag_to == SatData_convert_mag_to /\ UNCHANGED << ncalls, ae_vars, fn_vars >>

Do_convert_GSE_to_GSM == SatData_convert_GSE_to_GSM /\ UNCHANGED << ncalls, ae_vars, fn_vars >>

Do_convert_RTN_to_GSE == SatData_convert_RTN_to_GSE /\ UNCHANGED << ncalls, ae_vars, fn_vars >>

Do_get_position == SatData_get_position /\ UNCHANGED << ncalls, ae_vars, fn_vars >>

Counted == ncalls < MaxCalls /\ ncalls' = ncalls + 1 /\ UNCHANGED << ae_vars, fn_vars >>

Count_setitem == Counted /\ SatData_setitem

Count_load_positions == Counted /\ SatData_load_positions

Count_cut == Counted /\ SatData_cut

Count_convert_mag_to == Counted /\ SatData_convert_mag_to

Count_convert_GSE_to_GSM == Counted /\ SatData_convert_GSE_to_GSM

Count_convert_RTN_to_GSE == Counted /\ SatData_convert_RTN_to_GSE

Count_shift_time_to_L1 == Counted /\ SatData_shift_time_to_L1

Count_shift_wind_to_L1 == Counted /\ SatData_shift_wind_to_L1

\* Indexed reads and writes on a constructed container.
NextIndex ==
    \/ Construct
    \/ Do_getitem
    \/ Do_setitem

SpecIndex == Init /\ [][NextIndex]_vars_all

\* cut, on containers with and without positions.
NextCut ==
    \/ Construct
    \/ Do_load_positions
    \/ Do_cut

SpecCut == Init /\ [][NextCut]_vars_all

\* The frame conversions, on containers with and without positions.
NextFrame ==
    \/ Construct
    \/ Do_load_positions
    \/ Do_convert_mag_to
    \/ Do_convert_GSE_to_GSM
    \/ Do_convert_RTN_to_GSE
    \/ Do_get_position

SpecFrame == Init /\ [][NextFrame]_vars_all

\* The two rotations of the field into another frame, on containers with and
\* without positions.
NextRotate ==
    \/ Construct
    \/ Do_load_positions
    \/ Do_convert_GSE_to_GSM
    \/ Do_convert_RTN_to_GSE

SpecRotate == Init /\ [][NextRotate]_vars_all

\* The loops with their iterations in any order: on the containers the
\* constructor makes, with and without positions, and on the training data
\* of the search, one of the two series without signal.
InitLoop ==
    \/ Init
    \/ InitAE /\ \E k \in AEKeySet : omni[k] = Zeros(MaxTrain)

\* The container is made where no search is under way; a call is made when
\* the loop of the call before it has ended
Loop_construct == omni = << >> /\ loop = NoLoop /\ Construct

Loop_load_positions == loop = NoLoop /\ Do_load_positions

NextLoop ==
    \/ Loop_construct
    \/ Loop_load_positions
    \/ AE_range
    \/ Loop_start_slide
    \/ Loop_start_gsm
    \/ Loop_start_heeq
    \/ Loop_start_gse
    \/ Loop_iter
    \/ Loop_end_slide
    \/ Loop_end_gsm
    \/ Loop_end_gse

SpecLoop == InitLoop /\ [][NextLoop]_vars_all

\* The two corrections to L1, on containers with and without positions,
\* with the samples read and with samples written, up to MaxCalls calls
\* after the construction.
NextL1 ==
    \/ Construct
    \/ Count_setitem
    \/ Count_load_positions
    \/ Count_shift_time_to_L1
    \/ Count_shift_wind_to_L1

SpecL1 == Init /\ [][NextL1]_vars_all

\* Every operation that writes to the container, in any order, up to MaxCalls
\* calls after the construction.
NextAll ==
    \/ Construct
    \/ Count_setitem
    \/ Count_load_positions
    \/ Count_cut
    \/ Count_convert_mag_to
    \/ Count_convert_GSE_to_GSM
    \/ Count_convert_RTN_to_GSE
    \/ Count_shift_time_to_L1
    \/ Count_shift_wind_to_L1

SpecAll == Init /\ [][NextAll]_vars_all

\* merge_Data on two containers
NextMerge ==
    \/ merge_Data

SpecMerge == InitMerge /\ [][NextMerge]_vars_all

\* interp_to_time and make_hourly_data on a container, before and after a
\* write to its time axis
NextInterp ==
    \/ setitem_time
    \/ SatData_interp_to_time
    \/ SatData_make_hourly_data

SpecInterp == InitInterp /\ [][NextInterp]_vars_all

\* The analogue search
NextAE ==
    \/ AE_range
    \/ AE_slide
    \/ AE_select
    \/ AE_assemble

SpecAE == InitAE /\ [][NextAE]_vars_all

\* ---------------------------------------------------------- properties
\* The last call was op, and it raised nothing
Did(op) == last.op = op /\ last.err = OK

\* The same of the call made in the step
Does(op) == last'.op = op /\ last'.err = OK

C2_UnknownNameRejected ==
    [][last'.key = UnknownKey =>
         /\ last'.op \in {"init", "getitem", "setitem"}
         /\ last'.err \in {"NotImplementedError", "KeyError"}
         /\ last'.op = "init" => ~exists'
         /\ last'.op # "init" => data' = data /\ vars' = vars /\ exists' = exists
      ]_vars_all

\* A write under the unknown name to a container that holds samples
C2_Witness ==
    /\ exists /\ SatLen = 2 /\ vars # << >>
    /\ last.op = "setitem" /\ last.key = UnknownKey /\ last.err = "KeyError"

\* The constructor was last called with a mapping that has no 'time'
NoTimeGiven == last.op = "init" /\ last.val = << 0 >>

\* C3 as stated: a mapping without 'time' fails with the time-required error,
\* and the presence of time is the first thing validated, so that a mapping
\* with no time and an unknown name is rejected for the missing time.
C3_TimeValidatedFirst ==
    NoTimeGiven => last.err = "TimeRequired" /\ ~exists

\* C3, amended: a mapping without 'time' is always rejected; it fails with
\* the time-required error when all its names are in the schema, and with
\* the schema error when one of them is not (the names are validated first).
C3_TimeRequiredAfterSchema ==
    NoTimeGiven =>
        /\ ~exists
        /\ last.err = IF last.key = UnknownKey THEN "NotImplementedError"
                      ELSE "TimeRequired"

\* A mapping of schema names without 'time' was rejected
C3_Witness == NoTimeGiven /\ last.key = "" /\ last.err = "TimeRequired" /\ ~exists

\* C4: a write of an array v of the container's length under a schema name
\* k other than 'time' leaves k in the active list exactly once (appended if
\* it was not active, the list as it was if it was), a read of k then
\* returns v, and every other row, the time axis among them, is as before.
C4_WriteThenRead ==
    [][(Does("setitem") /\ last'.key # "time" /\ Len(last'.val) = SatLen) =>
         LET k == last'.key
         IN  /\ k \in DefaultKeySet
             /\ Count(k, vars') = 1
             /\ vars' = IF InList(k, vars) THEN vars ELSE Append(vars, k)
             /\ InList(k, vars' \o << "time" >>)
             /\ data'[k] = last'.val
             /\ \A o \in DefaultKeySet \ {k} : data'[o] = data[o]
      ]_vars_all

\* kp, not active before, was written with two samples and is now the last
\* active name
C4_Witness ==
    /\ exists /\ Did("setitem") /\ last.key = "kp"
    /\ SatLen = 2 /\ Len(last.val) = 2
    /\ vars # << >> /\ vars[Len(vars)] = "kp" /\ Len(vars) > 1
    /\ data["kp"] = last.val

\* The sample at time t lies within the bounds arg = << start, end >>
Kept(t, arg) ==
    /\ (arg[1] # None => t >= arg[1][1])
    /\ (arg[2] # None => t < arg[2][1])

\* The number of the samples 1..i of the axis that lie within the bounds
Rank(time, arg, i) == Cardinality({j \in 1..i : Kept(time[j], arg)})

NonDecreasing(row) == \A i \in 1..(Len(row) - 1) : row[i] <= row[i + 1]

\* What a cut with bounds arg leaves: as many samples as lie within the
\* bounds, each with the values it had, in the order they had, and nothing
\* else; with both bounds given the axis non-decreasing (whenever it was, if
\* ifSorted); everything as it was when no bound is given.
CutLeaves(arg, ifSorted) ==
    LET time == data["time"]
    IN  /\ Len(data'["time"]) = Rank(time, arg, Len(time))
        /\ \A i \in 1..Len(time) :
              Kept(time[i], arg) =>
                 \A k \in DefaultKeySet : data'[k][Rank(time, arg, i)] = data[k][i]
        /\ \A j \in 1..Len(data'["time"]) : Kept(data'["time"][j], arg)
        /\ (arg[1] # None /\ arg[2] # None /\ (ifSorted => NonDecreasing(time)))
              => NonDecreasing(data'["time"])
        /\ arg = << None, None >> => data' = data

\* C5 as stated: cut keeps exactly the samples with start <= t < end (only
\* the bound given, when one is omitted), in their order and with their
\* values, and the resulting time axis is non-decreasing.
C5_CutAxisNonDecreasing ==
    [][Does("cut") => CutLeaves(last'.arg, FALSE)]_vars_all

\* C5, amended: the same, with the resulting time axis non-decreasing
\* whenever the time axis was non-decreasing before the cut.
C5_CutKeepsInterval ==
    [][Does("cut") => CutLeaves(last'.arg, TRUE)]_vars_all

\* A cut to [1, 2) kept the second of two samples and dropped the first
C5_Witness ==
    /\ exists /\ Did("cut") /\ last.arg = << Some(1), Some(2) >>
    /\ Len(state) = 2
    /\ data["time"] = << 1 >>
    /\ InList("speed", vars) /\ data["speed"] = << Sample("speed", 2) >>

\* C6: a cut of a container with an attached Position Series restricts the
\* positions as it restricts the data: afterwards there are as many
\* positions as timestamps, and each retained timestamp is paired with the
\* position it was paired with before.
C6_CutRestrictsPositions ==
    [][(Does("cut") /\ pos.attached /\ PosLen = SatLen) =>
         LET time == data["time"]
             arg == last'.arg
         IN  /\ pos'.attached
             /\ \A c \in 1..3 : Len(pos'.positions[c]) = Len(data'["time"])
             /\ \A i \in 1..Len(time) :
                   Kept(time[i], arg) =>
                      /\ data'["time"][Rank(time, arg, i)] = time[i]
                      /\ \A c \in 1..3 :
                            pos'.positions[c][Rank(time, arg, i)] = pos.positions[c][i]
      ]_vars_all

\* A cut from 1 on dropped the first of two samples of a container with
\* positions attached
C6_Witness ==
    /\ exists /\ Did("cut") /\ last.arg = << Some(1), None >>
    /\ pos.attached /\ PosLen = 1 /\ SatLen = 1 /\ Len(state) = 2

\* C7: every frame conversion that completes has activated (written) bx, by
\* and bz and made the ReferenceFrame label name the target frame: GSE to
\* GSM puts 'GSM' in the place of 'GSE', RTN to GSE appends 'GSE', and
\* convert_mag_to(f) sets the label to f.
C7_ConversionNamesTargetFrame ==
    [][/\ (Does("convert_GSE_to_GSM") /\ h.ReferenceFrame = << "GSE" >>) =>
            /\ h'.ReferenceFrame = ReplacedLabel(h.ReferenceFrame, "GSE", "GSM")
            /\ \A k \in {"bx", "by", "bz"} : InList(k, vars')
       /\ Does("convert_RTN_to_GSE") =>
            /\ h'.ReferenceFrame = Append(h.ReferenceFrame, "GSE")
            /\ \A k \in {"bx", "by", "bz"} : InList(k, vars')
       /\ Does("convert_mag_to") =>
            /\ h'.ReferenceFrame = << last'.key >>
            /\ \A k \in {"bx", "by", "bz"} : InList(k, vars')
      ]_vars_all

\* C8: convert_RTN_to_GSE on a container without positions, given neither
\* external array or only one of the two, refuses with the missing-position
\* error and leaves the container as it was.
C8_IncompletePositionsRefused ==
    [][(/\ last'.op = "convert_RTN_to_GSE"
        /\ ~pos.attached
        /\ (last'.arg[1] = << 0 >> \/ last'.arg[2] = << 0 >>)) =>
           /\ last'.err = "MissingPosition"
           /\ data' = data /\ vars' = vars /\ h' = h
      ]_vars_all

\* The offsets i of the loop: the window of offset i starts at startindex + i
Offsets == 0..(trainsize - 1)

\* The window of offset i holds no missing value in variable k
ValidWindow(k, i) == ~AnyNaN(Window(k, startindex + i))

\* The window of offset i equals the now-wind in variable k
CopyIn(k, i) == Window(k, startindex + i) = nowwind[k]

\* The window of offset i is an exact copy of the now-wind
ExactCopy(i) == \A k \in AEKeySet : CopyIn(k, i)

NoMissingValues == \A k \in AEKeySet : ~AnyNaN(omni[k])

\* C9: a missing value never decides the match: for every variable, the
\* window selected as best match holds no NaN in that variable whenever
\* some window of the searched range holds none.
C9_MissingValueNeverSelected ==
    stage = "done" =>
        \A k \in AEKeySet :
            (\E i \in Offsets : ValidWindow(k, i)) => ValidWindow(k, maxpos[k])

\* C10 as stated: with no missing value in the training data and exactly one
\* window of the searched range an exact copy of the now-wind, the distance
\* at the copy is 0 for every variable and the copy is the window selected
\* for every variable.
C10_ExactCopySelected ==
    (stage = "done" /\ NoMissingValues) =>
        \A i \in Offsets :
            (ExactCopy(i) /\ \A j \in Offsets \ {i} : ~ExactCopy(j)) =>
                \A k \in AEKeySet : dist_count[k][i + 1] = 0 /\ maxpos[k] = i

\* C10, amended: with no missing value in the training data, the distance at
\* an exact copy of the now-wind is 0 for every variable, and the window
\* selected for a variable is the first window of the range that equals the
\* now-wind in that variable: the copy itself, unless an earlier window
\* equals the now-wind in that variable.
C10_FirstCopySelected ==
    (stage = "done" /\ NoMissingValues) =>
        \A i \in Offsets :
            ExactCopy(i) =>
                \A k \in AEKeySet :
                    /\ dist_count[k][i + 1] = 0
                    /\ CopyIn(k, maxpos[k])
                    /\ \A j \in 0..(maxpos[k] - 1) : ~CopyIn(k, j)
                    /\ maxpos[k] <= i
                    /\ (\A j \in 0..(i - 1) : ~CopyIn(k, j)) => maxpos[k] = i

\* The second of two windows is the only exact copy, and it was selected for
\* every variable
C10_Witness ==
    /\ stage = "done" /\ NoMissingValues /\ trainsize = 2
    /\ ExactCopy(1) /\ ~ExactCopy(0)
    /\ \A k \in AEKeySet : maxpos[k] = 1 /\ dist_count[k][2] = 0 /\ dist_count[k][1] > 0

\* The time of the sample at index ind of the training data
TimeAt(ind) == OmniTime[ind + 1]

\* C11: every window that was evaluated, and the forecast-horizon samples
\* that follow it, lie inside [trainstart, trainend]: the window does not
\* start before trainstart and its continuation does not reach past trainend.
C11_WindowsInsideTrainingRange ==
    \A i \in 0..(loop_i - 1) :
        LET first == startindex + i
            final == startindex + i + 2 * deltat
        IN  /\ TimeAt(first) >= trainstart
            /\ final < MaxTrain
            /\ TimeAt(final) <= trainend

\* The index of the first sample of the window matched for variable k
MatchStart(k) == startindex + maxpos[k]

\* The deltat samples of variable k that follow its matched window
Continuation(k) ==
    Slice(omni[k], MatchStart(k) + deltat + 1, MatchStart(k) + 2 * deltat + 1)

\* C12: the assembled series of every variable is the now-wind followed by
\* the deltat training samples that follow that variable's own matched
\* window, none repeated and none skipped, and the assembled time axis holds
\* no time twice.
C12_ForecastContinuesOwnMatch ==
    stage = "assembled" =>
        /\ \A k \in AEKeySet :
              /\ Len(Continuation(k)) = deltat
              /\ vardst[k] = nowwind[k] \o Continuation(k)
        /\ Len(timesdst) = 2 * deltat + 1
        /\ StrictlyIncreasing(timesdst)

\* The ranking by ascending distance, equal distances by ascending index
StableArgSort(d) ==
    CHOOSE p \in ArgSort(d) :
        \A a, b \in 1..Len(d) : (a < b /\ d[p[a] + 1] = d[p[b] + 1]) => p[a] < p[b]

\* C13: the candidates kept are the head of the ranking by ascending
\* distance with equal distances by ascending index, and the best match is
\* the first of them: the lowest index that attains the smallest distance.
C13_BestMatchHeadsRanking ==
    stage = "done" =>
        \A k \in AEKeySet :
            /\ \A a \in 1..Len(top50[k]) :
                  top50[k][a] = StableArgSort(dist_count[k])[a]
            /\ top50[k] # << >>
            /\ maxpos[k] = top50[k][1]
            /\ maxpos[k] = StableArgSort(dist_count[k])[1]

\* C14: with at least TopK candidates, TopK distinct indices are kept for
\* every variable, and no index left out has a smaller distance than one
\* that is kept.
C14_TopKHoldsKSmallest ==
    (stage = "done" /\ trainsize >= TopK) =>
        \A k \in AEKeySet :
            /\ Len(top50[k]) = TopK
            /\ \A a, b \in 1..Len(top50[k]) : a # b => top50[k][a] # top50[k][b]
            /\ \A a \in 1..Len(top50[k]), j \in Offsets :
                  (\A b \in 1..Len(top50[k]) : top50[k][b] # j) =>
                      ~SortsBefore(dist_count[k], j + 1, top50[k][a] + 1)

\* merge_Data returned a container
Merged == ret.op = "merge_Data" /\ ret.err = OK

\* The grid points A_last + k*step, k = 1, 2, ..., that are not later than
\* B's last timestamp
ContinuationPoints(step) ==
    {k \in 1..MaxGrid :
        Last(satdata1.data["time"]) + k * step <= Last(satdata2.data["time"])}

Prefix(row, n) == [i \in 1..n |-> row[i]]

\* C15: the container merge_Data returns starts with A's samples, time axis
\* and every merged variable, and its length is len(A) plus the number of
\* grid points A_last + k*step after A's last timestamp and up to B's last
\* timestamp.
C15_MergeAppendsContinuation ==
    Merged =>
        LET n == Len(satdata1.data["time"])
            out == ret.out
        IN  /\ Len(out.data["time"]) =
                   n + Cardinality(ContinuationPoints(timestep(satdata1)))
            /\ Prefix(out.data["time"], n) = satdata1.data["time"]
            /\ \A i \in 1..Len(out.vars) :
                  Prefix(out.data[out.vars[i]], n) = satdata1.data[out.vars[i]]

\* The timestep a declared sampling rate implies
ImpliedStep(rate) ==
    IF rate = Hour THEN Hour ELSE IF rate = Minute THEN Minute ELSE rate

\* C16: the continuation of the merged time axis is spaced by the timestep
\* that A's declared sampling rate implies (an hour, a minute, or the rate
\* itself), and that timestep is the merged container's sampling rate.
C16_MergeStepFromDeclaredRate ==
    Merged =>
        LET n == Len(satdata1.data["time"])
            t == ret.out.data["time"]
            step == ImpliedStep(satdata1.h.SamplingRate[1])
        IN  /\ ret.out.h.SamplingRate = Some(step)
            /\ \A i \in n..(Len(t) - 1) : t[i + 1] - t[i] = step

\* C17: the merged source name is A's followed by B's, the merged instrument
\* list holds every instrument of A or B once, and the merged reference
\* frame is A's.
C17_MergeMetadata ==
    Merged =>
        LET ins == ret.out.h.Instruments
        IN  /\ ret.out.source = satdata1.source \o << "+" >> \o satdata2.source
            /\ SeqToSet(ins) =
                   SeqToSet(satdata1.h.Instruments) \cup SeqToSet(satdata2.h.Instruments)
            /\ \A x \in SeqToSet(ins) : Count(x, ins) = 1
            /\ ret.out.h.ReferenceFrame = satdata1.h.ReferenceFrame

\* interp_to_time returned a container
Interpolated == ret.op = "interp_to_time" /\ ret.err = OK

\* C18: the container interp_to_time returns has the time axis new_times,
\* the active variables of the source, the sampling rate
\* new_times[1] - new_times[0], and positions exactly when the source has
\* positions.
C18_InterpReturnsNewTimes ==
    Interpolated =>
        /\ ret.out.data["time"] = ret.tarray
        /\ SeqToSet(ret.out.vars) = SeqToSet(satdata1.vars)
        /\ ret.out.h.SamplingRate = Some(ret.tarray[2] - ret.tarray[1])
        /\ ret.out.pos.attached = satdata1.pos.attached

\* C19: with a keys list the returned container holds exactly the listed
\* variables, and without one all the active variables of the source.
C19_InterpKeysSelectVariables ==
    Interpolated =>
        SeqToSet(ret.out.vars) =
            IF ret.keys = None THEN SeqToSet(satdata1.vars) ELSE SeqToSet(ret.keys[1])

\* make_hourly_data returned a container
MadeHourly == ret.op = "make_hourly_data" /\ ret.err = OK

\* C20: for a container that spans more than two hours, the time axis of
\* the container make_hourly_data returns starts at the first sample's time
\* rounded down to the full hour, has its points one hour apart, and ends at
\* the latest such point that is not later than the last sample.
C20_HourlyGridSpansToLastSample ==
    (MadeHourly /\ Last(satdata1.data["time"]) - satdata1.data["time"][1] > 2 * Hour) =>
        LET t0 == satdata1.data["time"][1]
            t == ret.out.data["time"]
        IN  /\ t[1] = t0 - (t0 % Hour)
            /\ \A i \in 1..(Len(t) - 1) : t[i + 1] - t[i] = Hour
            /\ Last(t) <= Last(satdata1.data["time"])
            /\ Last(t) + Hour > Last(satdata1.data["time"])

\* The variables that scale with the distance from the Sun
WindKeys == {"btot", "bx", "by", "bz", "br", "bt", "bn", "density"}

\* C21: shift_wind_to_L1 multiplies every sample of every active field
\* variable and of the active density by the inverse square of (L1 distance
\* / monitor distance) at that sample, and leaves the time axis, speed and
\* every other row as they were.
C21_WindScaledByInverseSquare ==
    [][Does("shift_wind_to_L1") =>
         \A k \in DefaultKeySet :
            IF k \in WindKeys /\ InList(k, vars)
            THEN /\ Len(data'[k]) = Len(data[k])
                 /\ \A i \in 1..Len(data[k]) :
                       data'[k][i] * L1_r(data["time"][i]) * L1_r(data["time"][i]) =
                           data[k][i] * PosRow(pos, "r")[i] * PosRow(pos, "r")[i]
            ELSE data'[k] = data[k]
      ]_vars_all

\* A monitor at twice the distance of L1: the density of that sample is four
\* times the density read, the speed is the speed read
C21_Witness ==
    /\ exists /\ Did("shift_wind_to_L1") /\ pos.attached
    /\ InList("density", vars) /\ InList("speed", vars)
    /\ \E i \in 1..SatLen :
          /\ PosRow(pos, "r")[i] = 2 * L1_r(data["time"][i])
          /\ data["density"][i] = 4 * Sample("density", i)
          /\ data["speed"][i] = Sample("speed", i)

\* C22: a correction to L1 that reads positions, called on a container
\* without positions whose positions can be loaded, loads them and completes.
C22_PositionsLoadedOnDemand ==
    [][(/\ ~pos.attached /\ LoadPositionsError = OK /\ SatLen > 0
        /\ InList("speed", vars)
        /\ \/ last'.op = "shift_wind_to_L1"
           \/ last'.op = "shift_time_to_L1" /\ last'.key = "new") =>
           /\ last'.err = OK
           /\ pos'.attached
      ]_vars_all

\* C23: a shift to L1 that completes on a container with a strictly
\* increasing time axis leaves a strictly increasing time axis of the same
\* length, and every other row as it was.
C23_ShiftKeepsTimeIncreasing ==
    [][(Does("shift_time_to_L1") /\ StrictlyIncreasing(data["time"])) =>
           /\ StrictlyIncreasing(data'["time"])
           /\ Len(data'["time"]) = Len(data["time"])
           /\ \A k \in DefaultKeySet \ {"time"} : data'[k] = data[k]
      ]_vars_all

\* C28: the list of active variables of a container never holds 'time' and
\* never holds a name twice, whatever names were written by index.
C28_VarsWithoutTimeNoDuplicates ==
    exists =>
        /\ ~InList("time", vars)
        /\ \A i, j \in 1..Len(vars) : vars[i] = vars[j] => i = j

\* C29: the array of state labels of a container has one entry for every
\* sample: its length is the length of the time axis, after the construction
\* and after every cut.
C29_StateHasOneEntryPerSample ==
    exists => Len(state) = SatLen

\* C30: merging two containers that both hold the requested keys, the first
\* with a declared sampling rate and the second ending later than the first,
\* returns a container; when the continuation grid is empty the result holds
\* the samples of the first container.
C30_MergeReturnsForLaterEnd ==
    [][(/\ ret = NoRet /\ ret'.op = "merge_Data"
        /\ satdata1.h.SamplingRate # None
        /\ \A i \in 1..Len(MergeKeys(satdata1, satdata2, ret'.keys)) :
              LET k == MergeKeys(satdata1, satdata2, ret'.keys)[i]
              IN  InList(k, satdata1.vars) /\ InList(k, satdata2.vars)
        /\ satdata1.data["time"] # << >> /\ satdata2.data["time"] # << >>
        /\ Last(satdata2.data["time"]) > Last(satdata1.data["time"])) =>
           /\ ret'.err = OK
           /\ new_time(satdata1, satdata2) = << >> =>
                 /\ ret'.out.data["time"] = satdata1.data["time"]
                 /\ \A i \in 1..Len(ret'.out.vars) :
                       ret'.out.data[ret'.out.vars[i]] = satdata1.data[ret'.out.vars[i]]
      ]_vars_all

\* The external position arrays of a call of convert_RTN_to_GSE that was
\* given both
GivenBoth(c) ==
    {ext \in ExtPositions : /\ OldMethod(ext)
                            /\ c.arg = << << Len(ext.pos_obj) >>, << Len(ext.pos_tnum) >> >>}

\* The nearest preceding position: the latest whose time is not later than t
NotLaterInds(pos_tnum, t) == {j \in 1..Len(pos_tnum) : pos_tnum[j] <= t}

\* C26: convert_RTN_to_GSE given both external position arrays, with
\* increasing times, on samples none of which is earlier than the first
\* position, finds a position for every sample, and the position it uses is
\* the latest one whose time is not later than the time of the sample.
C26_NearestPrecedingPosition ==
    [][\A ext \in GivenBoth(last') :
          (/\ last'.op = "convert_RTN_to_GSE"
           /\ StrictlyIncreasing(ext.pos_tnum)
           /\ \A i \in 1..SatLen : data["time"][i] >= ext.pos_tnum[1]) =>
              /\ last'.err # "IndexError"
              /\ \A i \in 1..SatLen :
                    /\ EarlierInds(ext.pos_tnum, data["time"][i]) # {}
                    /\ time_ind_pos(ext.pos_tnum, data["time"][i]) =
                          SetMax(NotLaterInds(ext.pos_tnum, data["time"][i]))
      ]_vars_all

\* C27: get_position at the time of sample k of a container with positions
\* returns the position stored for sample k, the last sample included; on a
\* container without positions it fails with the missing-position error.
C27_PositionOfSampleAtItsTime ==
    [][last'.op = "get_position" =>
          /\ ~pos.attached => last'.err = "MissingPosition"
          /\ (pos.attached /\ PosLen = SatLen /\ StrictlyIncreasing(data["time"])) =>
                \A k \in 1..SatLen :
                   data["time"][k] = last'.arg[1] =>
                      /\ last'.err = OK
                      /\ last'.val = PosAt(pos, k)
      ]_vars_all

\* The square of the magnitude of a vector
SqNorm(v) == Dot(v, v)

====
